---- MODULE Spec2Model ----
(***************************************************************************)
(* Model of the CayenneLPP uplink decoder of the TTN-Decoder repository    *)
(* (src/decoder_cayenneLPP_extreme.js): the SensorTypes catalog, the       *)
(* field decoder decodeValue, the stream walk processPayloadVersion_ONE    *)
(* and the entry point decodeUplink.                                       *)
(*                                                                         *)
(* JavaScript values are tagged records: a Number is an exact rational     *)
(* [t |-> "number", num, den] in lowest terms (the rounding of IEEE        *)
(* doubles is not modelled), undefined is [t |-> "undefined"], an array is *)
(* [t |-> "array", items], an {x, y, z} literal is [t |-> "object", ...].  *)
(* The bit operators <<, | and & work on 32-bit two's-complement integers  *)
(* as ECMAScript defines them; every intermediate stays inside the 32-bit  *)
(* integers of TLC.                                                        *)
(***************************************************************************)
EXTENDS Integers, Sequences, FiniteSets, TLC

VARIABLES
    catalog,    \* the global SensorTypes object
    input,      \* the argument of the running decodeUplink call
    pc,         \* position of the call: idle, called, walk, return, done
    i,          \* the loop index of processPayloadVersion_ONE
    decoded,    \* the object the walk fills
    result,     \* what the call returned (or that it threw)
    dvArgs,     \* arguments of a direct decodeValue call
    dvResult,   \* result of that direct decodeValue call
    calls,      \* the finished calls a caller has kept: input and result of each
    decodedId   \* which evaluation of the literal {} made the object decoded refers to

vars == <<catalog, input, pc, i, decoded, result, dvArgs, dvResult, calls, decodedId>>

----------------------------------------------------------------------------
(* JavaScript values *)

Undefined == [t |-> "undefined"]

NoResult == [t |-> "none"]

Throw(e) == [t |-> "throw", error |-> e]

IsThrow(v) == v.t = "throw"

ArrayOf(s) == [t |-> "array", items |-> s]

RECURSIVE GCD(_, _)
GCD(a, b) == IF b = 0 THEN a ELSE GCD(b, a % b)

\* The Number n / d, d > 0, in lowest terms.
Divide(n, d) ==
    LET g == GCD(d, n % d)
    IN  [t |-> "number", num |-> n \div g, den |-> d \div g]

Number(n) == [t |-> "number", num |-> n, den |-> 1]

\* ToString of a byte read from the buffer, as string concatenation applies it.
ToStr(v) == IF v.t = "undefined" THEN "undefined" ELSE ToString(v.num)

----------------------------------------------------------------------------
(* 32-bit integer operators of ECMAScript *)

\* ToInt32 of an operand of | : undefined counts as 0.
ToInt32(v) == IF v.t = "undefined" THEN 0 ELSE v.num

\* 2^31 does not fit the 32-bit integers of TLC: it is added and subtracted
\* as two halves.
Half31 == 2 ^ 30

\* Bits 0..30 of the 32-bit two's-complement integer a, as a natural number.
Low31(a) == IF a < 0 THEN (a + Half31) + Half31 ELSE a

\* The 32-bit integer with sign bit `neg` and bits 0..30 equal to low.
Signed32(neg, low) == IF neg THEN (low - Half31) - Half31 ELSE low

\* Bitwise or / and of two natural numbers, bit by bit from the lowest.
RECURSIVE OrNat(_, _)
OrNat(a, b) ==
    IF a = 0 THEN b
    ELSE IF b = 0 THEN a
    ELSE (IF a % 2 = 1 \/ b % 2 = 1 THEN 1 ELSE 0) + 2 * OrNat(a \div 2, b \div 2)

RECURSIVE AndNat(_, _)
AndNat(a, b) ==
    IF a = 0 \/ b = 0 THEN 0
    ELSE (IF a % 2 = 1 /\ b % 2 = 1 THEN 1 ELSE 0) + 2 * AndNat(a \div 2, b \div 2)

BitOr(a, b) == Signed32(a < 0 \/ b < 0, OrNat(Low31(a), Low31(b)))

BitAnd(a, b) == Signed32(a < 0 /\ b < 0, AndNat(Low31(a), Low31(b)))

\* x doubled s times.
RECURSIVE Doubled(_, _)
Doubled(x, s) == IF s = 0 THEN x ELSE Doubled(2 * x, s - 1)

\* a << n: the shift count is taken modulo 32; bits 0..31-s of a move up by s,
\* bit 31-s becomes the sign, the higher bits are lost.
ShiftLeft(a, n) ==
    LET s    == n % 32
        top  == 2 ^ (31 - s)
        kept == IF s = 0 THEN Low31(a) ELSE Low31(a) % top
        neg  == IF s = 0 THEN a < 0 ELSE (Low31(a) \div top) % 2 = 1
    IN  Signed32(neg, Doubled(kept, s))

----------------------------------------------------------------------------
(* The catalog *)

\* The catalog with the type id of GYRO_SENS given to the barometer as well.
SensorTypesSharedId ==
    [ DIG_IN     |-> [type |-> 0,   precision |-> 1,     signed |-> FALSE, bytes |-> 1],
      DIG_OUT    |-> [type |-> 1,   precision |-> 1,     signed |-> FALSE, bytes |-> 1],
      ANL_IN     |-> [type |-> 2,   precision |-> 100,   signed |-> TRUE,  bytes |-> 2],
      ANL_OUT    |-> [type |-> 3,   precision |-> 100,   signed |-> TRUE,  bytes |-> 2],
      ILLUM_SENS |-> [type |-> 101, precision |-> 1,     signed |-> FALSE, bytes |-> 2],
      PRSNC_SENS |-> [type |-> 102, precision |-> 1,     signed |-> FALSE, bytes |-> 1],
      TEMP_SENS  |-> [type |-> 103, precision |-> 10,    signed |-> TRUE,  bytes |-> 2],
      HUM_SENS   |-> [type |-> 104, precision |-> 10,    signed |-> FALSE, bytes |-> 2],
      ACCRM_SENS |-> [type |-> 113, precision |-> 1000,  signed |-> TRUE,  bytes |-> 6],
      BARO_SENS  |-> [type |-> 134, precision |-> 10,    signed |-> FALSE, bytes |-> 2],
      GYRO_SENS  |-> [type |-> 134, precision |-> 100,   signed |-> TRUE,  bytes |-> 6],
      GPS_LOC    |-> [type |-> 136, precision |-> 10000, signed |-> TRUE,  bytes |-> 12] ]

SensorTypes ==
    [ DIG_IN     |-> [type |-> 0,   precision |-> 1,     signed |-> FALSE, bytes |-> 1],
      DIG_OUT    |-> [type |-> 1,   precision |-> 1,     signed |-> FALSE, bytes |-> 1],
      ANL_IN     |-> [type |-> 2,   precision |-> 100,   signed |-> TRUE,  bytes |-> 2],
      ANL_OUT    |-> [type |-> 3,   precision |-> 100,   signed |-> TRUE,  bytes |-> 2],
      ILLUM_SENS |-> [type |-> 101, precision |-> 1,     signed |-> FALSE, bytes |-> 2],
      PRSNC_SENS |-> [type |-> 102, precision |-> 1,     signed |-> FALSE, bytes |-> 1],
      TEMP_SENS  |-> [type |-> 103, precision |-> 10,    signed |-> TRUE,  bytes |-> 2],
      HUM_SENS   |-> [type |-> 104, precision |-> 10,    signed |-> FALSE, bytes |-> 2],
      ACCRM_SENS |-> [type |-> 113, precision |-> 1000,  signed |-> TRUE,  bytes |-> 6],
      BARO_SENS  |-> [type |-> 115, precision |-> 10,    signed |-> FALSE, bytes |-> 2],
      GYRO_SENS  |-> [type |-> 134, precision |-> 100,   signed |-> TRUE,  bytes |-> 6],
      GPS_LOC    |-> [type |-> 136, precision |-> 10000, signed |-> TRUE,  bytes |-> 12] ]

----------------------------------------------------------------------------
(* decodeValue *)

\* bytes[idx]: a property read of undefined throws, an index outside the array
\* reads undefined.
GetChecked(bytes, idx) ==
    IF bytes.t # "array" THEN Throw("TypeError")
    ELSE IF idx < Len(bytes.items) THEN Number(bytes.items[idx + 1])
    ELSE Throw("RangeError")

Get(bytes, idx) ==
    IF bytes.t # "array" THEN Throw("TypeError")
    ELSE IF idx < Len(bytes.items) THEN Number(bytes.items[idx + 1])
    ELSE Undefined

\* The loop run from the lowest index up: the bytes composed in big-endian order.
RECURSIVE ComposeBigEndian(_, _, _, _)
ComposeBigEndian(bytes, idx, byteIndex, value) ==
    IF byteIndex < 0 THEN value
    ELSE ComposeBigEndian(bytes, idx + 1, byteIndex - 1,
                          BitOr(ShiftLeft(value, 8), ToInt32(Get(bytes, idx))))

\* The loop of decodeValue, from byteIndex down to 0.
RECURSIVE Compose(_, _, _, _)
Compose(bytes, idx, byteIndex, value) ==
    IF byteIndex < 0 THEN value
    ELSE Compose(bytes, idx, byteIndex - 1,
                 BitOr(ShiftLeft(value, 8), ToInt32(Get(bytes, idx + byteIndex))))

\* decodeValue without its sign test.
SignAdjustNone(value, isSigned, byteLength) == value

\* The sign test and adjustment; the subtraction is Number arithmetic.
SignAdjust(value, isSigned, byteLength) ==
    IF isSigned /\ BitAnd(value, ShiftLeft(1, 8 * byteLength - 1)) # 0
    THEN value - ShiftLeft(1, 8 * byteLength)
    ELSE value

\* decodeValue without i += byteLength: the index comes back as it went in.
decodeValueKeepingIndex(bytes, idx, isSigned, precision, byteLength) ==
    IF \E k \in 0..(byteLength - 1) : IsThrow(Get(bytes, idx + k))
    THEN Throw("TypeError")
    ELSE [t     |-> "ok",
          value |-> Divide(SignAdjust(Compose(bytes, idx, byteLength - 1, 0),
                                      isSigned, byteLength), precision),
          index |-> idx]

decodeValue(bytes, idx, isSigned, precision, byteLength) ==
    IF \E k \in 0..(byteLength - 1) : IsThrow(Get(bytes, idx + k))
    THEN Throw("TypeError")
    ELSE [t     |-> "ok",
          value |-> Divide(SignAdjust(Compose(bytes, idx, byteLength - 1, 0),
                                      isSigned, byteLength), precision),
          index |-> idx + byteLength]

----------------------------------------------------------------------------
(* processPayloadVersion_ONE *)

\* decoded[key] = value only when the key is new: the first write stays.
PutIfAbsent(obj, key, value) ==
    [k \in (DOMAIN obj) \cup {key} |->
        IF k \in DOMAIN obj THEN obj[k] ELSE value]

\* decoded[key] = value
Put(obj, key, value) ==
    [k \in (DOMAIN obj) \cup {key} |-> IF k = key THEN value ELSE obj[k]]

\* The scalar case with the channel alone as key, the prefix left out.
ScalarCaseChannelOnly(bytes, idx, channel, obj, S, prefix) ==
    LET decodeResult == decodeValue(bytes, idx, S.signed, S.precision, S.bytes)
    IN  IF IsThrow(decodeResult) THEN decodeResult
        ELSE [t       |-> "ok",
              index   |-> decodeResult.index,
              decoded |-> Put(obj, ToStr(channel), decodeResult.value)]

\* A case of the switch that decodes one field of sensor S: decodeValue,
\* i = decodeResult.index, decoded[prefix + channel] = decodeResult.value.
ScalarCase(bytes, idx, channel, obj, S, prefix) ==
    LET decodeResult == decodeValue(bytes, idx, S.signed, S.precision, S.bytes)
    IN  IF IsThrow(decodeResult) THEN decodeResult
        ELSE [t       |-> "ok",
              index   |-> decodeResult.index,
              decoded |-> Put(obj, prefix \o ToStr(channel), decodeResult.value)]

\* The vector case with the index left where it was between the three calls:
\* every component is read from the first field.
VectorCaseSameField(bytes, idx, channel, obj, S, prefix, zPrecision) ==
    LET DecodeX == decodeValue(bytes, idx, S.signed, S.precision, S.bytes \div 3)
    IN  IF IsThrow(DecodeX) THEN DecodeX
        ELSE
        LET DecodeY == decodeValue(bytes, idx, S.signed, S.precision,
                                   S.bytes \div 3)
        IN  IF IsThrow(DecodeY) THEN DecodeY
            ELSE
            LET DecodeZ == decodeValue(bytes, idx, S.signed, zPrecision,
                                       S.bytes \div 3)
            IN  IF IsThrow(DecodeZ) THEN DecodeZ
                ELSE [t       |-> "ok",
                      index   |-> DecodeZ.index,
                      decoded |-> Put(obj, prefix \o ToStr(channel),
                                      [t |-> "object",
                                       x |-> DecodeX.value,
                                       y |-> DecodeY.value,
                                       z |-> DecodeZ.value])]

\* The vector case with the precision of the kind in all three calls.
VectorCaseSharedPrecision(bytes, idx, channel, obj, S, prefix, zPrecision) ==
    LET DecodeX == decodeValue(bytes, idx, S.signed, S.precision, S.bytes \div 3)
    IN  IF IsThrow(DecodeX) THEN DecodeX
        ELSE
        LET DecodeY == decodeValue(bytes, DecodeX.index, S.signed, S.precision,
                                   S.bytes \div 3)
        IN  IF IsThrow(DecodeY) THEN DecodeY
            ELSE
            LET DecodeZ == decodeValue(bytes, DecodeY.index, S.signed, S.precision,
                                       S.bytes \div 3)
            IN  IF IsThrow(DecodeZ) THEN DecodeZ
                ELSE [t       |-> "ok",
                      index   |-> DecodeZ.index,
                      decoded |-> Put(obj, prefix \o ToStr(channel),
                                      [t |-> "object",
                                       x |-> DecodeX.value,
                                       y |-> DecodeY.value,
                                       z |-> DecodeZ.value])]

\* A case of the switch that decodes three fields of S.bytes / 3 bytes each;
\* zPrecision is the precision argument of the third call.
VectorCase(bytes, idx, channel, obj, S, prefix, zPrecision) ==
    LET DecodeX == decodeValue(bytes, idx, S.signed, S.precision, S.bytes \div 3)
    IN  IF IsThrow(DecodeX) THEN DecodeX
        ELSE
        LET DecodeY == decodeValue(bytes, DecodeX.index, S.signed, S.precision,
                                   S.bytes \div 3)
        IN  IF IsThrow(DecodeY) THEN DecodeY
            ELSE
            LET DecodeZ == decodeValue(bytes, DecodeY.index, S.signed, zPrecision,
                                       S.bytes \div 3)
            IN  IF IsThrow(DecodeZ) THEN DecodeZ
                ELSE [t       |-> "ok",
                      index   |-> DecodeZ.index,
                      decoded |-> Put(obj, prefix \o ToStr(channel),
                                      [t |-> "object",
                                       x |-> DecodeX.value,
                                       y |-> DecodeY.value,
                                       z |-> DecodeZ.value])]

\* The default case with skip-and-continue: the walk resumes after the header.
UnknownTypeSkip(bytes, idx, obj, type) ==
    [t       |-> "ok",
     index   |-> idx,
     decoded |-> Put(obj, "errors", ArrayOf(<<"Unknown type: " \o ToStr(type)>>))]

\* The default case with the index set to the last byte instead of past it.
UnknownTypeToLastByte(bytes, idx, obj, type) ==
    [t       |-> "ok",
     index   |-> Len(bytes.items) - 1,
     decoded |-> Put(obj, "errors", ArrayOf(<<"Unknown type: " \o ToStr(type)>>))]

\* The default case: the error list goes into decoded.errors and the index
\* jumps to the end of the buffer.
UnknownType(bytes, idx, obj, type) ==
    [t       |-> "ok",
     index   |-> Len(bytes.items),
     decoded |-> Put(obj, "errors", ArrayOf(<<"Unknown type: " \o ToStr(type)>>))]

\* One iteration of the for loop, entered with idx < bytes.length.
Iteration(bytes, idx, obj) ==
    LET type    == Get(bytes, idx)
        channel == Get(bytes, idx + 1)
        j       == idx + 2
        T       == catalog
    IN  IF IsThrow(type) THEN type
        ELSE IF IsThrow(channel) THEN channel
        ELSE IF type = Number(T.DIG_IN.type)
            THEN ScalarCase(bytes, j, channel, obj, T.DIG_IN, "digital_")
        ELSE IF type = Number(T.DIG_OUT.type)
            THEN ScalarCase(bytes, j, channel, obj, T.DIG_OUT, "digital_")
        ELSE IF type = Number(T.ANL_IN.type)
            THEN ScalarCase(bytes, j, channel, obj, T.ANL_IN, "analog_")
        ELSE IF type = Number(T.ANL_OUT.type)
            THEN ScalarCase(bytes, j, channel, obj, T.ANL_OUT, "analog_")
        ELSE IF type = Number(T.ILLUM_SENS.type)
            THEN ScalarCase(bytes, j, channel, obj, T.ILLUM_SENS, "illumination_")
        ELSE IF type = Number(T.PRSNC_SENS.type)
            THEN ScalarCase(bytes, j, channel, obj, T.PRSNC_SENS, "presence_")
        ELSE IF type = Number(T.TEMP_SENS.type)
            THEN ScalarCase(bytes, j, channel, obj, T.TEMP_SENS, "temperature_")
        ELSE IF type = Number(T.HUM_SENS.type)
            THEN ScalarCase(bytes, j, channel, obj, T.HUM_SENS, "humidity_")
        ELSE IF type = Number(T.ACCRM_SENS.type)
            THEN VectorCase(bytes, j, channel, obj, T.ACCRM_SENS, "accelerometer_",
                            T.ACCRM_SENS.precision)
        ELSE IF type = Number(T.BARO_SENS.type)
            THEN ScalarCase(bytes, j, channel, obj, T.BARO_SENS, "barometer_")
        ELSE IF type = Number(T.GYRO_SENS.type)
            THEN VectorCase(bytes, j, channel, obj, T.GYRO_SENS, "gyroscope_",
                            T.GYRO_SENS.precision)
        ELSE IF type = Number(T.GPS_LOC.type)
            THEN VectorCase(bytes, j, channel, obj, T.GPS_LOC, "gps_",
                            T.GPS_LOC.precision \div 100)
        ELSE UnknownType(bytes, j, obj, type)

\* bytes.length, read by the loop condition.
LengthOf(bytes) ==
    IF bytes.t # "array" THEN Throw("TypeError") ELSE Number(Len(bytes.items))

----------------------------------------------------------------------------
(* Inputs of the model *)

\* Largest number of chunks concatenated into one buffer.
MaxRecords == 3

\* Largest length of the buffers made of arbitrary bytes.
MaxLen == 3

\* Largest length of the buffers handed to decodeValue directly.
MaxFieldLen == 4

Channels == {0, 1, 255}

\* Values of a one-byte field.
Field1 == {<<0>>, <<1>>, <<50>>, <<255>>}

\* Values of a two-byte field: 0, 268, -12 (65524), 32767, -32768 (32768).
Field2 == {<<0, 0>>, <<12, 1>>, <<244, 255>>, <<255, 127>>, <<0, 128>>}

\* Values of a four-byte field: 515074, -1278, 3000, -1.
Field4 == {<<2, 220, 7, 0>>, <<2, 251, 255, 255>>, <<184, 11, 0, 0>>,
           <<255, 255, 255, 255>>}

FieldsOfWidth(w) == IF w = 1 THEN Field1 ELSE IF w = 2 THEN Field2 ELSE Field4

SensorNames == DOMAIN SensorTypes

IsVector(S) == S.bytes > 2

\* The value bytes of one complete record of sensor S.
ValuesOf(S) ==
    IF IsVector(S)
    THEN LET F == FieldsOfWidth(S.bytes \div 3)
         IN  {x \o y \o z : x \in F, y \in F, z \in F}
    ELSE FieldsOfWidth(S.bytes)

\* One complete record of every kind of the catalog.
CompleteRecords ==
    UNION {{<<SensorTypes[n].type, c>> \o v : c \in Channels, v \in ValuesOf(SensorTypes[n])}
           : n \in SensorNames}

\* Every proper, non-empty prefix of a complete record on channel 1.
TruncatedRecords ==
    UNION {{SubSeq(r, 1, k) : k \in 1..(Len(r) - 1)}
           : r \in {q \in CompleteRecords : q[2] = 1}}

\* Records whose type id is not in the catalog.
UnknownRecords == {<<200, 4, 1>>, <<255, 0>>, <<4, 1, 7>>}

\* The chunks concatenated into longer buffers.
Chunks ==
    { <<0, 1, 0>>, <<0, 1, 1>>, <<1, 1, 255>>,
      <<2, 5, 244, 255>>, <<3, 5, 12, 1>>,
      <<104, 1, 50>>, <<200, 4, 1>>, <<0>>,
      <<113, 1, 12, 1, 244, 255, 0, 0>>,
      <<136, 3, 2, 220, 7, 0, 2, 251, 255, 255, 184, 11, 0, 0>> }

RECURSIVE Concats(_)
Concats(n) ==
    IF n = 0 THEN {<<>>}
    ELSE LET prev == Concats(n - 1)
         IN  prev \cup {p \o c : p \in prev, c \in Chunks}

ArbitraryBytes == {0, 104, 200, 255}

ArbitraryBuffers == UNION {[1..k -> ArbitraryBytes] : k \in 0..MaxLen}

\* A record header on channel 1 for every value a type byte can have.
EveryTypeId == {<<ty, 1>> : ty \in 0..255}

Buffers ==
    CompleteRecords \cup TruncatedRecords \cup UnknownRecords
        \cup Concats(MaxRecords) \cup ArbitraryBuffers \cup EveryTypeId

\* Version selectors: 1, two others, and an input without fPort.
FPorts == {Number(1), Number(2), Number(0), Undefined}

\* An input without bytes is the one input on which the call throws.
Inputs ==
    [bytes : {ArrayOf(b) : b \in Buffers}, fPort : FPorts]
        \cup [bytes : {Undefined}, fPort : FPorts]

----------------------------------------------------------------------------
(* decodeUplink *)

EmptyObject == [k \in {} |-> Undefined]

\* A version test that accepts every numeric selector.
AnyNumber(v) == v.t = "number"

\* payload_version == 1
LooseEqualsOne(v) == v.t = "number" /\ v.num = 1 /\ v.den = 1

Init ==
    /\ catalog = SensorTypes
    /\ input = NoResult
    /\ pc = "idle"
    /\ i = 0
    /\ decoded = EmptyObject
    /\ result = NoResult
    /\ dvArgs = NoResult
    /\ dvResult = NoResult
    /\ calls = <<>>
    /\ decodedId = 0

\* decodeUplink(input) is entered: bytes, payload_version and decoded are bound.
Call ==
    /\ pc = "idle"
    /\ \E inp \in Inputs : input' = inp
    /\ pc' = "called"
    /\ decoded' = EmptyObject
    /\ decodedId' = decodedId + 1
    /\ UNCHANGED <<catalog, i, result, dvArgs, dvResult, calls>>

\* The version test: the walk starts, or the error goes into decoded.errors.
VersionCheck ==
    /\ pc = "called"
    /\ IF LooseEqualsOne(input.fPort)
       THEN IF IsThrow(LengthOf(input.bytes))
            THEN /\ result' = LengthOf(input.bytes)
                 /\ pc' = "done"
                 /\ UNCHANGED <<i, decoded>>
            ELSE /\ i' = 0
                 /\ pc' = "walk"
                 /\ UNCHANGED <<decoded, result>>
       ELSE /\ decoded' = Put(decoded, "errors",
                   ArrayOf(<<"Payload Version not supported: " \o ToStr(input.fPort)>>))
            /\ pc' = "return"
            /\ UNCHANGED <<i, result>>
    /\ UNCHANGED <<catalog, input, dvArgs, dvResult, calls, decodedId>>

\* One iteration that takes the record off the front of the buffer it was given
\* instead of moving an index over it.
WalkStepShiftingBytes ==
    /\ pc = "walk"
    /\ i < Len(input.bytes.items)
    /\ LET r == Iteration(input.bytes, i, decoded)
       IN  IF IsThrow(r)
           THEN /\ result' = r
                /\ pc' = "done"
                /\ UNCHANGED <<input, decoded>>
           ELSE /\ input' = [input EXCEPT !.bytes.items =
                                 SubSeq(@, IF r.index < Len(@) THEN r.index + 1
                                           ELSE Len(@) + 1, Len(@))]
                /\ decoded' = r.decoded
                /\ UNCHANGED <<pc, result>>
    /\ UNCHANGED <<catalog, i, dvArgs, dvResult, calls, decodedId>>

\* One iteration of the loop of processPayloadVersion_ONE.
WalkStep ==
    /\ pc = "walk"
    /\ i < Len(input.bytes.items)
    /\ LET r == Iteration(input.bytes, i, decoded)
       IN  IF IsThrow(r)
           THEN /\ result' = r
                /\ pc' = "done"
                /\ UNCHANGED <<i, decoded>>
           ELSE /\ i' = r.index
                /\ decoded' = r.decoded
                /\ UNCHANGED <<pc, result>>
    /\ UNCHANGED <<catalog, input, dvArgs, dvResult, calls, decodedId>>

\* The loop condition fails: processPayloadVersion_ONE returns decoded.
WalkExit ==
    /\ pc = "walk"
    /\ ~(i < Len(input.bytes.items))
    /\ pc' = "return"
    /\ UNCHANGED <<catalog, input, i, decoded, result, dvArgs, dvResult, calls, decodedId>>

\* The return statement with the error list of decoded moved to the top-level
\* errors field.
ReturnErrorsHoisted ==
    /\ pc = "return"
    /\ result' = [t               |-> "return",
                  decoder_version |-> input.fPort,
                  data            |-> decoded,
                  warnings        |-> <<>>,
                  errors          |-> IF "errors" \in DOMAIN decoded
                                      THEN decoded["errors"].items ELSE <<>>]
    /\ pc' = "done"
    /\ UNCHANGED <<catalog, input, i, decoded, dvArgs, dvResult, calls, decodedId>>

\* The return statement without the decoder_version field.
ReturnWithoutVersion ==
    /\ pc = "return"
    /\ result' = [t        |-> "return",
                  data     |-> decoded,
                  warnings |-> <<>>,
                  errors   |-> <<>>]
    /\ pc' = "done"
    /\ UNCHANGED <<catalog, input, i, decoded, dvArgs, dvResult, calls, decodedId>>

\* The return statement of decodeUplink.
Return ==
    /\ pc = "return"
    /\ result' = [t               |-> "return",
                  decoder_version |-> input.fPort,
                  data            |-> decoded,
                  warnings        |-> <<>>,
                  errors          |-> <<>>]
    /\ pc' = "done"
    /\ UNCHANGED <<catalog, input, i, decoded, dvArgs, dvResult, calls, decodedId>>

\* The caller is done with the result; the next call starts from scratch.
Release ==
    /\ pc = "done"
    /\ pc' = "idle"
    /\ input' = NoResult
    /\ i' = 0
    /\ decoded' = EmptyObject
    /\ result' = NoResult
    /\ decodedId' = 0
    /\ UNCHANGED <<catalog, dvArgs, dvResult, calls>>

Next == Call \/ VersionCheck \/ WalkStep \/ WalkExit \/ Return \/ Release

Spec == Init /\ [][Next]_vars

----------------------------------------------------------------------------
(* decodeUplink of the decoder without version selector *)

\* The loop is entered at once: bytes.length is read, fPort is not.
BasicEntry ==
    /\ pc = "called"
    /\ IF IsThrow(LengthOf(input.bytes))
       THEN /\ result' = LengthOf(input.bytes)
            /\ pc' = "done"
            /\ UNCHANGED i
       ELSE /\ i' = 0
            /\ pc' = "walk"
            /\ UNCHANGED result
    /\ UNCHANGED <<catalog, input, decoded, dvArgs, dvResult, calls, decodedId>>

\* The return statement: data, warnings and errors.
BasicReturn ==
    /\ pc = "return"
    /\ result' = [t        |-> "return",
                  data     |-> decoded,
                  warnings |-> <<>>,
                  errors   |-> <<>>]
    /\ pc' = "done"
    /\ UNCHANGED <<catalog, input, i, decoded, dvArgs, dvResult, calls, decodedId>>

NextBasic == Call \/ BasicEntry \/ WalkStep \/ WalkExit \/ BasicReturn \/ Release

SpecBasic == Init /\ [][NextBasic]_vars

----------------------------------------------------------------------------
(* Several calls of decodeUplink in a row, the caller keeping every result *)

MaxCalls == 3

\* Inputs of the calls of one run: records, an unknown type id, an unsupported
\* selector, an input without bytes.
HistoryInputs ==
    { [bytes |-> ArrayOf(<<0, 1, 0>>), fPort |-> Number(1)],
      [bytes |-> ArrayOf(<<0, 1, 1, 103, 2, 44, 1>>), fPort |-> Number(1)],
      [bytes |-> ArrayOf(<<200, 4, 1>>), fPort |-> Number(1)],
      [bytes |-> ArrayOf(<<0, 1, 0>>), fPort |-> Number(2)],
      [bytes |-> ArrayOf(<<136, 3, 2, 220, 7, 0, 2, 251, 255, 255, 184, 11, 0, 0>>),
       fPort |-> Undefined],
      [bytes |-> Undefined, fPort |-> Number(1)] }

\* decodeUplink entered with decoded declared outside the function: the object
\* of the previous call is still there.
CallSharingDecoded ==
    /\ pc = "idle"
    /\ Len(calls) < MaxCalls
    /\ \E inp \in HistoryInputs : input' = inp
    /\ pc' = "called"
    /\ UNCHANGED <<catalog, i, decoded, result, dvArgs, dvResult, calls, decodedId>>

\* decodeUplink(input) is entered after earlier calls: bytes, payload_version
\* and decoded are bound anew; whatever the earlier calls left is still there.
CallAmong ==
    /\ pc = "idle"
    /\ Len(calls) < MaxCalls
    /\ \E inp \in HistoryInputs : input' = inp
    /\ pc' = "called"
    /\ decoded' = EmptyObject
    /\ decodedId' = decodedId + 1
    /\ UNCHANGED <<catalog, i, result, dvArgs, dvResult, calls>>

\* The call is over and the caller keeps its input and its result; nothing of
\* the decoder's state is cleared.
Record ==
    /\ pc = "done"
    /\ pc' = "idle"
    /\ calls' = Append(calls, [input |-> input, result |-> result,
                                dataObject |-> decodedId])
    /\ UNCHANGED <<catalog, input, i, decoded, result, dvArgs, dvResult, decodedId>>

NextHistory == CallAmong \/ VersionCheck \/ WalkStep \/ WalkExit \/ Return \/ Record

SpecHistory == Init /\ [][NextHistory]_vars

----------------------------------------------------------------------------
(* decodeValue called on its own *)

FieldBytes == {0, 1, 3, 128, 255}

Precisions == {1, 10}

Widths == {1, 2, 4}

\* The one field whose decoded integer, -2^31 - 1, needs 33 bits.
NeedsWiderIntegers(a) ==
    /\ a.isSigned
    /\ a.byteLength = 4
    /\ Len(a.bytes.items) >= a.i + 4
    /\ SubSeq(a.bytes.items, a.i + 1, a.i + 4) = <<0, 0, 0, 128>>

DecodeValueArgs ==
    {a \in [bytes      : {ArrayOf(b) : b \in UNION {[1..k -> FieldBytes] : k \in 0..MaxFieldLen}},
            i          : {0, 1},
            isSigned   : BOOLEAN,
            precision  : Precisions,
            byteLength : Widths] : ~NeedsWiderIntegers(a)}

InitValue ==
    /\ catalog = SensorTypes
    /\ input = NoResult
    /\ pc = "idle"
    /\ i = 0
    /\ decoded = EmptyObject
    /\ result = NoResult
    /\ dvArgs \in DecodeValueArgs
    /\ dvResult = NoResult
    /\ calls = <<>>
    /\ decodedId = 0

ApplyDecodeValue ==
    /\ dvResult = NoResult
    /\ dvResult' = decodeValue(dvArgs.bytes, dvArgs.i, dvArgs.isSigned,
                               dvArgs.precision, dvArgs.byteLength)
    /\ UNCHANGED <<catalog, input, pc, i, decoded, result, dvArgs, calls, decodedId>>

NextValue == ApplyDecodeValue

SpecValue == InitValue /\ [][NextValue]_vars

----------------------------------------------------------------------------
(* Reference definitions used by the properties: the wire format as the      *)
(* specification describes it, computed without the decoder's operators.    *)

\* The unsigned little-endian integer of the w bytes of b from offset o.
RECURSIVE LittleEndian(_, _, _)
LittleEndian(b, o, w) ==
    IF w = 0 THEN 0 ELSE b[o + 1] + 256 * LittleEndian(b, o + 1, w - 1)

\* The same w bytes read as a two's-complement integer: the most significant
\* byte counts from -128 to 127.
RECURSIVE TwosComplement(_, _, _)
TwosComplement(b, o, w) ==
    IF w = 1 THEN (IF b[o + 1] >= 128 THEN b[o + 1] - 256 ELSE b[o + 1])
    ELSE b[o + 1] + 256 * TwosComplement(b, o + 1, w - 1)

\* r is the unsigned little-endian integer of the w bytes of b from offset o
\* (stated digit by digit: the integer itself may need more than 31 bits).
IsMagnitude(r, b, o, w) ==
    /\ r >= 0
    /\ \A k \in 0..(w - 1) : (r \div (256 ^ k)) % 256 = b[o + k + 1]
    /\ w < 4 => r < 256 ^ w

\* The integer v * p of a Number v = n / d with d dividing p.
Scaled(v, p) == v.num * (p \div v.den)

IsCatalogType(ty) == \E n \in SensorNames : SensorTypes[n].type = ty

KindOf(ty) == SensorTypes[CHOOSE n \in SensorNames : SensorTypes[n].type = ty]

\* The fixed key-prefix table.
PrefixOf(ty) ==
    CASE ty \in {0, 1} -> "digital"
      [] ty \in {2, 3} -> "analog"
      [] ty = 101 -> "illumination"
      [] ty = 102 -> "presence"
      [] ty = 103 -> "temperature"
      [] ty = 104 -> "humidity"
      [] ty = 113 -> "accelerometer"
      [] ty = 115 -> "barometer"
      [] ty = 134 -> "gyroscope"
      [] ty = 136 -> "gps"

KeyOf(ty, c) == PrefixOf(ty) \o "_" \o ToString(c)

\* A call with version selector 1 on an array of bytes has finished.
DoneV1 == pc = "done" /\ input.fPort = Number(1) /\ input.bytes.t = "array"

----------------------------------------------------------------------------
(* C1 *)

\* b is one complete record [type_id, c, value bytes] of a scalar kind.
IsScalarRecord(b) ==
    /\ Len(b) >= 3
    /\ IsCatalogType(b[1])
    /\ ~IsVector(KindOf(b[1]))
    /\ Len(b) = 2 + KindOf(b[1]).bytes

RawInt(b) ==
    IF KindOf(b[1]).signed THEN TwosComplement(b, 2, KindOf(b[1]).bytes)
    ELSE LittleEndian(b, 2, KindOf(b[1]).bytes)

\* C1: decodeUplink with fPort = 1 on a buffer that is one complete record of a
\* scalar kind returns a data mapping with exactly one key, "<prefix>_<channel>",
\* whose value is raw_int / precision, raw_int being the little-endian integer of
\* the value bytes, two's complement when the kind is signed.
C1_ScalarSingleRecord ==
    (DoneV1 /\ IsScalarRecord(input.bytes.items)) =>
        LET b   == input.bytes.items
            key == KeyOf(b[1], b[2])
        IN  /\ result.t = "return"
            /\ DOMAIN result.data = {key}
            /\ result.data[key] = Divide(RawInt(b), KindOf(b[1]).precision)

\* A negative temperature, -12 / 10, has been decoded from [103, 1, 244, 255].
C1_Witness ==
    /\ DoneV1
    /\ input.bytes.items = <<103, 1, 244, 255>>
    /\ result.t = "return"
    /\ result.data["temperature_1"] = Divide(0 - 12, 10)

----------------------------------------------------------------------------
(* C2 *)

DecodedInBounds ==
    /\ dvResult.t = "ok"
    /\ dvArgs.i + dvArgs.byteLength <= Len(dvArgs.bytes.items)

\* C2 (as claimed): decodeValue with signed = false returns, for every width in
\* {1, 2, 4} and every in-bounds field, the non-negative little-endian magnitude
\* of the bytes divided by precision.
C2_UnsignedMagnitude ==
    (DecodedInBounds /\ ~dvArgs.isSigned) =>
        IsMagnitude(Scaled(dvResult.value, dvArgs.precision),
                    dvArgs.bytes.items, dvArgs.i, dvArgs.byteLength)

\* What the code does satisfy: the claim for the widths 1 and 2, and for width 4
\* when the most significant byte is below 128.
C2_UnsignedMagnitudeBelow31Bits ==
    (DecodedInBounds /\ ~dvArgs.isSigned
        /\ (dvArgs.byteLength = 4 => dvArgs.bytes.items[dvArgs.i + 4] < 128)) =>
        IsMagnitude(Scaled(dvResult.value, dvArgs.precision),
                    dvArgs.bytes.items, dvArgs.i, dvArgs.byteLength)

----------------------------------------------------------------------------
(* C3 *)

\* C3 (as claimed): decodeValue with signed = true returns, for the widths 2 and
\* 4, the two's-complement integer of the bytes divided by precision.
C3_SignExtension ==
    (DecodedInBounds /\ dvArgs.isSigned /\ dvArgs.byteLength \in {2, 4}) =>
        Scaled(dvResult.value, dvArgs.precision) =
            TwosComplement(dvArgs.bytes.items, dvArgs.i, dvArgs.byteLength)

\* What the code does satisfy: the claim for width 2.
C3_SignExtensionWidth2 ==
    (DecodedInBounds /\ dvArgs.isSigned /\ dvArgs.byteLength = 2) =>
        Scaled(dvResult.value, dvArgs.precision) =
            TwosComplement(dvArgs.bytes.items, dvArgs.i, 2)

----------------------------------------------------------------------------
(* The record layout of a buffer, by the widths of the catalog *)

RecordEnd(b, o) == o + 2 + KindOf(b[o + 1]).bytes

\* A complete record of a catalog kind starts at offset o.
CompleteAt(b, o) ==
    /\ o < Len(b)
    /\ IsCatalogType(b[o + 1])
    /\ RecordEnd(b, o) <= Len(b)

\* The offsets of the complete records from boundary o up to the first unknown
\* type id, truncated record or end of the buffer.
RECURSIVE RecordOffsets(_, _)
RecordOffsets(b, o) ==
    IF CompleteAt(b, o) THEN {o} \cup RecordOffsets(b, RecordEnd(b, o)) ELSE {}

\* The boundary at which that sequence of complete records stops.
RECURSIVE StopOffset(_, _)
StopOffset(b, o) == IF CompleteAt(b, o) THEN StopOffset(b, RecordEnd(b, o)) ELSE o

\* The walk meets an unknown type id at a record boundary.
UnknownTypeMet(b) ==
    LET o == StopOffset(b, 0) IN o < Len(b) /\ ~IsCatalogType(b[o + 1])

\* The buffer ends inside the value bytes of a record of a catalog kind.
FieldTruncated(b) ==
    LET o == StopOffset(b, 0)
    IN  o + 2 <= Len(b) /\ IsCatalogType(b[o + 1]) /\ RecordEnd(b, o) > Len(b)

\* Exactly one byte remains at a record boundary.
HeaderTruncated(b) == StopOffset(b, 0) = Len(b) - 1

RecordKey(b, o) == KeyOf(b[o + 1], b[o + 2])

\* The value the decoder gives the record at offset o when it is decoded alone.
RecordValue(b, o) ==
    Iteration(ArrayOf(SubSeq(b, o + 1, RecordEnd(b, o))), 0, EmptyObject).decoded[RecordKey(b, o)]

\* The last of the complete records that has the key of the record at offset o.
LastWithKey(b, o) ==
    LET same == {q \in RecordOffsets(b, 0) : RecordKey(b, q) = RecordKey(b, o)}
    IN  CHOOSE q \in same : \A r \in same : r <= q

CompleteKeys(b) == {RecordKey(b, o) : o \in RecordOffsets(b, 0)}

InSeq(x, s) == \E k \in 1..Len(s) : s[k] = x

\* The message is in the errors list of the result or in an errors list inside data.
ErrorPresent(msg) ==
    /\ result.t = "return"
    /\ \/ InSeq(msg, result.errors)
       \/ /\ "errors" \in DOMAIN result.data
          /\ InSeq(msg, result.data["errors"].items)

\* The call ended in an error of any form: thrown, or reported in either list.
DecodeFailed ==
    \/ result.t = "throw"
    \/ result.errors # <<>>
    \/ "errors" \in DOMAIN result.data

----------------------------------------------------------------------------
(* C4 *)

UnknownTypeMessage(b) == "Unknown type: " \o ToString(b[StopOffset(b, 0) + 1])

\* C4 (as claimed): when the walk meets an unknown type id, every complete record
\* before it is in data under its key with its own decoded value, the error
\* string naming the id is in the result, and nothing after it adds a key.
C4_StopsAtUnknownType ==
    (DoneV1 /\ UnknownTypeMet(input.bytes.items)) =>
        LET b == input.bytes.items
        IN  /\ ErrorPresent(UnknownTypeMessage(b))
            /\ DOMAIN result.data = CompleteKeys(b) \cup {"errors"}
            /\ \A o \in RecordOffsets(b, 0) :
                   result.data[RecordKey(b, o)] = RecordValue(b, o)

\* C4 (amended): the same, the value under each key being that of the last
\* complete record with this key before the unknown type id.
C4_StopsAtUnknownTypeLastWins ==
    (DoneV1 /\ UnknownTypeMet(input.bytes.items)) =>
        LET b == input.bytes.items
        IN  /\ ErrorPresent(UnknownTypeMessage(b))
            /\ DOMAIN result.data = CompleteKeys(b) \cup {"errors"}
            /\ \A o \in RecordOffsets(b, 0) :
                   result.data[RecordKey(b, o)] = RecordValue(b, LastWithKey(b, o))

\* A record, then type id 200, then a valid record that has left no trace.
C4_Witness ==
    /\ DoneV1
    /\ input.bytes.items = <<0, 1, 0, 200, 4, 1, 2, 5, 244, 255>>
    /\ DOMAIN result.data = {"digital_1", "errors"}
    /\ result.data["digital_1"] = Number(0)
    /\ result.data["errors"] = ArrayOf(<<"Unknown type: 200">>)

----------------------------------------------------------------------------
(* C5 *)

\* C5 (as claimed): whenever an unsupported version selector or an unknown type
\* id is detected, the top-level errors list of the result is non-empty and
\* contains the error string.
C5_ErrorsInTopLevelList ==
    (pc = "done" /\ result.t = "return") =>
        /\ input.fPort # Number(1) =>
               InSeq("Payload Version not supported: " \o ToStr(input.fPort),
                     result.errors)
        /\ (input.fPort = Number(1) /\ UnknownTypeMet(input.bytes.items)) =>
               InSeq(UnknownTypeMessage(input.bytes.items), result.errors)

----------------------------------------------------------------------------
(* C6 *)

\* C6: with a version selector other than 1 the walk is never started, data
\* holds no decoded field, and the error naming the selector is in the result.
C6_UnsupportedVersion ==
    (pc # "idle" /\ input.fPort # Number(1)) =>
        /\ pc # "walk"
        /\ i = 0
        /\ DOMAIN decoded \subseteq {"errors"}
        /\ pc = "done" =>
               /\ DOMAIN result.data = {"errors"}
               /\ ErrorPresent("Payload Version not supported: " \o ToStr(input.fPort))

\* Selector 2 on a buffer holding a valid record: nothing but the error.
C6_Witness ==
    /\ pc = "done"
    /\ input.fPort = Number(2)
    /\ input.bytes = ArrayOf(<<0, 1, 1>>)
    /\ result.data["errors"] = ArrayOf(<<"Payload Version not supported: 2">>)

----------------------------------------------------------------------------
(* C7 *)

\* C7 (as claimed): a buffer that ends inside a field makes the decode fail, and
\* no key is inserted for the truncated record.
C7_TruncatedFieldFails ==
    (DoneV1 /\ FieldTruncated(input.bytes.items)) =>
        /\ DecodeFailed
        /\ result.t = "return" =>
               DOMAIN result.data \subseteq CompleteKeys(input.bytes.items) \cup {"errors"}

----------------------------------------------------------------------------
(* C8 *)

\* C8: the buffer [104, c, b], a humidity record one value byte short, decodes
\* to data = {humidity_<c>: b / 10} with no error.
C8_ShortHumidityRecord ==
    (DoneV1 /\ Len(input.bytes.items) = 3 /\ input.bytes.items[1] = 104) =>
        LET b   == input.bytes.items
            key == "humidity_" \o ToString(b[2])
        IN  /\ result.t = "return"
            /\ DOMAIN result.data = {key}
            /\ result.data[key] = Divide(b[3], 10)
            /\ result.errors = <<>>

\* [104, 1, 50] has been decoded to humidity_1 = 5.
C8_Witness ==
    /\ DoneV1
    /\ input.bytes.items = <<104, 1, 50>>
    /\ result.t = "return"
    /\ result.data["humidity_1"] = Number(5)

----------------------------------------------------------------------------
(* C9 *)

\* C9 (as claimed): when one byte remains at a record boundary the decode fails,
\* and no key is inserted for the incomplete record.
C9_TruncatedHeaderFails ==
    (DoneV1 /\ HeaderTruncated(input.bytes.items)) =>
        /\ DecodeFailed
        /\ result.t = "return" =>
               DOMAIN result.data \subseteq CompleteKeys(input.bytes.items) \cup {"errors"}

----------------------------------------------------------------------------
(* C10 *)

\* C10: on every input whose bytes is an array of byte values, with any version
\* selector, decodeUplink returns an outcome and does not throw.
C10_NeverThrows ==
    (pc = "done" /\ input.bytes.t = "array") => result.t = "return"

\* A call on a buffer that ends after a lone type id has returned an outcome.
C10_Witness ==
    /\ DoneV1
    /\ input.bytes.items = <<0, 1, 0, 0>>
    /\ HeaderTruncated(input.bytes.items)
    /\ result.t = "return"

----------------------------------------------------------------------------
(* C11 *)

\* The walk stands at offset i of the buffer, where a complete record of a
\* vector kind starts.
AtVectorRecord ==
    /\ pc = "walk"
    /\ i < Len(input.bytes.items)
    /\ CompleteAt(input.bytes.items, i)
    /\ IsVector(KindOf(input.bytes.items[i + 1]))

\* The divisor of the third component of a kind.
ThirdDivisor(ty) ==
    IF ty = 136 THEN KindOf(ty).precision \div 100 ELSE KindOf(ty).precision

\* dec: the w bytes of b from offset o, taken on their own and decoded as one
\* signed little-endian field with divisor p.
Dec(b, o, w, p) ==
    decodeValue(ArrayOf(SubSeq(b, o + 1, o + w)), 0, TRUE, p, w).value

\* C11: an iteration that starts at a complete record [type_id, c, f1, f2, f3] of
\* a vector kind (accelerometer and gyroscope: three 2-byte fields, GPS: three
\* 4-byte fields) stores {x: dec(f1), y: dec(f2), z: dec(f3)} under
\* "<prefix>_<c>", the fields being consecutive and in input order, and advances
\* the offset by 2 + byte_width.
C11_VectorSplit ==
    [][AtVectorRecord =>
        LET b  == input.bytes.items
            ty == b[i + 1]
            w  == IF ty = 136 THEN 4 ELSE 2
        IN  /\ KindOf(ty).bytes = 3 * w
            /\ i' = i + 2 + KindOf(ty).bytes
            /\ KeyOf(ty, b[i + 2]) \in DOMAIN decoded'
            /\ decoded'[KeyOf(ty, b[i + 2])] =
                   [t |-> "object",
                    x |-> Dec(b, i + 2, w, KindOf(ty).precision),
                    y |-> Dec(b, i + 2 + w, w, KindOf(ty).precision),
                    z |-> Dec(b, i + 2 + 2 * w, w, ThirdDivisor(ty))]]_vars

\* An accelerometer record after a scalar one: the walk has moved from offset 3
\* to offset 11 and stored the three 2-byte fields in input order.
C11_Witness ==
    /\ pc = "walk"
    /\ input.bytes.items = <<0, 1, 0, 113, 1, 12, 1, 244, 255, 0, 0>>
    /\ i = 11
    /\ decoded["accelerometer_1"] =
           [t |-> "object", x |-> Divide(268, 1000), y |-> Divide(0 - 12, 1000),
            z |-> Number(0)]

----------------------------------------------------------------------------
(* C12 *)

\* b is one complete record [type_id, c, f1, f2, f3] of a vector kind.
IsVectorRecord(b) ==
    /\ Len(b) >= 3
    /\ IsCatalogType(b[1])
    /\ IsVector(KindOf(b[1]))
    /\ Len(b) = 2 + KindOf(b[1]).bytes

\* The integer the decoder composes from the w bytes of b at offset o, before
\* any division.
RawField(b, o, w) == Dec(b, o, w, 1).num

\* The divisors of the three components of each vector kind, as claimed.
ClaimedDivisors(ty) ==
    CASE ty = 113 -> <<1000, 1000, 1000>>
      [] ty = 134 -> <<100, 100, 100>>
      [] ty = 136 -> <<10000, 10000, 100>>

\* C12: in a GPS record x and y are the field integers divided by 10000 and z is
\* the field integer divided by 100, one hundredth of that divisor; in an
\* accelerometer record all three are divided by 1000, in a gyroscope record
\* all three by 100.
C12_VectorDivisors ==
    (DoneV1 /\ IsVectorRecord(input.bytes.items)) =>
        LET b   == input.bytes.items
            w   == KindOf(b[1]).bytes \div 3
            d   == ClaimedDivisors(b[1])
            vec == result.data[KeyOf(b[1], b[2])]
        IN  /\ d[3] * 100 = d[1] \/ b[1] # 136
            /\ vec.x = Divide(RawField(b, 2, w), d[1])
            /\ vec.y = Divide(RawField(b, 2 + w, w), d[2])
            /\ vec.z = Divide(RawField(b, 2 + 2 * w, w), d[3])

\* A GPS record whose first and third field hold 515074 and 3000: latitude
\* 51.5074 and altitude 30.
C12_Witness ==
    /\ DoneV1
    /\ input.bytes.items = <<136, 3, 2, 220, 7, 0, 2, 251, 255, 255, 184, 11, 0, 0>>
    /\ result.data["gps_3"].x = Divide(515074, 10000)
    /\ result.data["gps_3"].z = Number(30)

----------------------------------------------------------------------------
(* C13 *)

\* The value the claim gives a 4-byte GPS component that encodes the integer v
\* in two's complement: (v - 1) / divisor when v is negative, v / divisor
\* otherwise.
ClaimedGpsComponent(b, o, divisor) ==
    LET v == TwosComplement(b, o, 4)
    IN  Divide(IF v < 0 THEN v - 1 ELSE v, divisor)

----------------------------------------------------------------------------
(* C14 *)

----------------------------------------------------------------------------
(* C15 *)

IsList(s) == DOMAIN s = 1..Len(s)

\* C15: every call on an input with a byte array returns a result with exactly
\* the fields decoder_version, data, warnings and errors, whatever fPort is;
\* decoder_version is the fPort of the input unchanged, warnings is the empty
\* list and errors is a list.
C15_ResultShape ==
    (pc = "done" /\ input.bytes.t = "array") =>
        /\ result.t = "return"
        /\ DOMAIN result = {"t", "decoder_version", "data", "warnings", "errors"}
        /\ result.decoder_version = input.fPort
        /\ result.warnings = <<>>
        /\ IsList(result.errors)

\* A call with fPort = 0: the selector is echoed although it is not supported.
C15_Witness ==
    /\ pc = "done"
    /\ input.fPort = Number(0)
    /\ input.bytes.items = <<104, 1, 50>>
    /\ result.t = "return"
    /\ result.decoder_version = Number(0)
    /\ result.warnings = <<>>
    /\ "errors" \in DOMAIN result.data

----------------------------------------------------------------------------
(* C16 *)

\* A call on an input that carries bytes and no fPort has finished.
DoneWithoutFPort ==
    pc = "done" /\ input.fPort = Undefined /\ input.bytes.t = "array"

\* b is a concatenation of complete records of catalog kinds.
OnlyCompleteRecords(b) == StopOffset(b, 0) = Len(b)

\* C16: decodeUplink on an input with bytes and no fPort decodes the records
\* with the version-1 scheme and returns data, warnings = [] and errors = []
\* with the decoded fields in data and no decoder version; the absent selector
\* is not reported as an unsupported version.
C16_AbsentSelectorDecodes ==
    DoneWithoutFPort =>
        LET b == input.bytes.items
        IN  /\ result.t = "return"
            /\ \/ "decoder_version" \notin DOMAIN result
               \/ result.decoder_version = Undefined
            /\ result.warnings = <<>>
            /\ result.errors = <<>>
            /\ ~ErrorPresent("Payload Version not supported: undefined")
            /\ OnlyCompleteRecords(b) =>
                   /\ DOMAIN result.data = CompleteKeys(b)
                   /\ \A o \in RecordOffsets(b, 0) :
                          result.data[RecordKey(b, o)] =
                              RecordValue(b, LastWithKey(b, o))

----------------------------------------------------------------------------
(* C17 *)

\* C17: two calls of decodeUplink on equal inputs (same bytes, same fPort)
\* return identical results, whatever calls were made before or between them.
C17_Deterministic ==
    \A j, k \in 1..Len(calls) :
        calls[j].input = calls[k].input => calls[j].result = calls[k].result

\* The first and the third call had the same input, the second another one,
\* and the first and third result are the same non-empty decoding.
C17_Witness ==
    /\ Len(calls) = 3
    /\ calls[1].input = [bytes |-> ArrayOf(<<0, 1, 0>>), fPort |-> Number(1)]
    /\ calls[2].input = [bytes |-> ArrayOf(<<200, 4, 1>>), fPort |-> Number(1)]
    /\ calls[3].input = calls[1].input
    /\ calls[1].result.t = "return"
    /\ DOMAIN calls[1].result.data = {"digital_1"}
    /\ calls[3].result = calls[1].result

----------------------------------------------------------------------------
(* C18 *)

\* The loop condition holds: the next step is an iteration of the walk.
IterationRuns == pc = "walk" /\ i < Len(input.bytes.items)

\* The loop condition fails: the next step leaves the loop.
LoopOver == pc = "walk" /\ ~(i < Len(input.bytes.items))

\* The iteration reads an unknown type id from the last byte of the buffer.
UnknownTypeInLastByte ==
    /\ i = Len(input.bytes.items) - 1
    /\ ~IsCatalogType(input.bytes.items[i + 1])

\* C18 (as claimed): every iteration of the loop increases the offset by at
\* least 2, and once the offset is no longer below the length of the buffer the
\* loop is left; the offset being an integer, the walk of a finite buffer ends
\* after finitely many iterations.
C18_AdvancesByTwo ==
    [][/\ IterationRuns => (pc' = "walk" /\ i' >= i + 2)
       /\ LoopOver => pc' = "return"]_vars

\* C18 (amended): every iteration of the loop strictly increases the offset, by
\* at least 2 unless it reads an unknown type id from the last byte of the
\* buffer, where the offset goes up by 1 to the length of the buffer; once the
\* offset is no longer below the length of the buffer the loop is left.
C18_StrictlyAdvances ==
    [][/\ IterationRuns =>
            /\ pc' = "walk"
            /\ i' > i
            /\ IF UnknownTypeInLastByte THEN i' = i + 1 ELSE i' >= i + 2
       /\ LoopOver => pc' = "return"]_vars

\* The walk of [200] after its only iteration: the offset went from 0 to 1.
C18_Witness ==
    /\ pc = "walk"
    /\ input.bytes.items = <<200>>
    /\ i = 1
    /\ decoded = Put(EmptyObject, "errors", ArrayOf(<<"Unknown type: 200">>))

----------------------------------------------------------------------------
(* C19 *)

\* The complete records of b, before the stop, of the kind and channel of the
\* record at offset o.
SameKindAndChannel(b, o) ==
    {q \in RecordOffsets(b, 0) : b[q + 1] = b[o + 1] /\ b[q + 2] = b[o + 2]}

LastOf(offsets) == CHOOSE q \in offsets : \A r \in offsets : r <= q

\* The records the walk decodes: the complete ones and, when the buffer ends
\* inside the value bytes of a record, that last record as well.
WalkedOffsets(b) ==
    RecordOffsets(b, 0) \cup (IF FieldTruncated(b) THEN {StopOffset(b, 0)} ELSE {})

\* The value of the record at offset o decoded alone, the buffer ending where b
\* ends.
WalkedValue(b, o) ==
    Iteration(ArrayOf(SubSeq(b, o + 1, Len(b))), 0, EmptyObject).decoded[RecordKey(b, o)]

SameKey(b, o) == {q \in WalkedOffsets(b) : RecordKey(b, q) = RecordKey(b, o)}

\* C19 (as claimed): when a (kind, channel) pair occurs in several complete
\* records of the buffer, data has one entry under its key, the value of the
\* last of these records, and the result carries no warning and no error.
C19_LastOfKindAndChannelWins ==
    DoneV1 =>
        LET b == input.bytes.items
        IN  \A o \in RecordOffsets(b, 0) :
                Cardinality(SameKindAndChannel(b, o)) > 1 =>
                    /\ RecordKey(b, o) \in DOMAIN result.data
                    /\ result.data[RecordKey(b, o)] =
                           RecordValue(b, LastOf(SameKindAndChannel(b, o)))
                    /\ result.warnings = <<>>
                    /\ result.errors = <<>>

\* C19 (amended): when several records the walk decodes write the same key
\* "<prefix>_<channel>", data has one entry under that key, the value of the
\* last of these records, and the result carries no warning and no error; the
\* records of two kinds that share a prefix count as writers of the same key.
C19_LastOfKeyWins ==
    DoneV1 =>
        LET b == input.bytes.items
        IN  \A o \in WalkedOffsets(b) :
                Cardinality(SameKey(b, o)) > 1 =>
                    /\ RecordKey(b, o) \in DOMAIN result.data
                    /\ result.data[RecordKey(b, o)] =
                           WalkedValue(b, LastOf(SameKey(b, o)))
                    /\ result.warnings = <<>>
                    /\ result.errors = <<>>

\* Digital input 0, then 1, on channel 1: only the 1 is left.
C19_Witness ==
    /\ DoneV1
    /\ input.bytes.items = <<0, 1, 0, 0, 1, 1>>
    /\ DOMAIN result.data = {"digital_1"}
    /\ result.data["digital_1"] = Number(1)
    /\ result.warnings = <<>>
    /\ result.errors = <<>>

----------------------------------------------------------------------------
(* C20 *)

\* The twelve type ids of the claim.
ClaimedTypeIds == {0, 1, 2, 3, 101, 102, 103, 104, 113, 115, 134, 136}

\* C20: the catalog has exactly twelve descriptors, their type ids are pairwise
\* distinct and are 0, 1, 2, 3, 101, 102, 103, 104, 113, 115, 134, 136, every
\* byte width is 1, 2, 6 or 12, the widths of the vector kinds (accelerometer 6,
\* gyroscope 6, GPS 12) are divisible by 3, and a walk that reads any other type
\* id of 0..255 at the start of the buffer treats it as unknown: it stores the
\* error and decodes nothing, while each of the twelve ids is decoded.
C20_CatalogAndUnknownIds ==
    /\ Cardinality(DOMAIN catalog) = 12
    /\ {catalog[n].type : n \in DOMAIN catalog} = ClaimedTypeIds
    /\ Cardinality(ClaimedTypeIds) = 12
    /\ \A n \in DOMAIN catalog : catalog[n].bytes \in {1, 2, 6, 12}
    /\ catalog.ACCRM_SENS.bytes = 6 /\ catalog.GYRO_SENS.bytes = 6
    /\ catalog.GPS_LOC.bytes = 12
    /\ \A n \in {"ACCRM_SENS", "GYRO_SENS", "GPS_LOC"} : catalog[n].bytes % 3 = 0
    /\ (DoneV1 /\ Len(input.bytes.items) >= 1) =>
           LET ty == input.bytes.items[1]
           IN  IF ty \in ClaimedTypeIds
               THEN \E key \in DOMAIN result.data : key # "errors"
               ELSE result.data =
                        Put(EmptyObject, "errors",
                            ArrayOf(<<"Unknown type: " \o ToString(ty)>>))

\* Type id 116, next to the barometer's 115, is unknown.
C20_Witness ==
    /\ DoneV1
    /\ input.bytes.items = <<116, 1>>
    /\ result.data = Put(EmptyObject, "errors", ArrayOf(<<"Unknown type: 116">>))
    /\ Cardinality({catalog[n].type : n \in DOMAIN catalog}) = 12

----------------------------------------------------------------------------
(* C21 *)

\* A call is running: it has been entered and has not returned or thrown yet.
CallRunning == pc \in {"called", "walk", "return"}

\* The data objects of the results the caller has kept are pairwise distinct
\* objects.
DataObjectsDistinct ==
    \A j, k \in 1..Len(calls) :
        (j # k /\ calls[j].result.t = "return" /\ calls[k].result.t = "return") =>
            calls[j].dataObject # calls[k].dataObject

\* C21: no step of a decodeUplink call changes the SensorTypes catalog or the
\* byte buffer of its input (contents and length), for any input and whatever
\* calls came before, and the data object of each result is a fresh object: no
\* two results the caller holds share it.
C21_NothingOutsideResult ==
    [][/\ catalog' = catalog
       /\ catalog' = SensorTypes
       /\ CallRunning => input' = input
       /\ DataObjectsDistinct']_vars

\* Two calls on the same buffer have returned: the catalog is as it was, the
\* second call found the buffer as the first one got it, and the two results
\* have equal data in two distinct objects.
C21_Witness ==
    /\ Len(calls) = 2
    /\ catalog = SensorTypes
    /\ calls[1].input = [bytes |-> ArrayOf(<<0, 1, 1, 103, 2, 44, 1>>),
                         fPort |-> Number(1)]
    /\ calls[2].input = calls[1].input
    /\ calls[1].result.t = "return"
    /\ calls[2].result.data = calls[1].result.data
    /\ DOMAIN calls[1].result.data = {"digital_1", "temperature_2"}
    /\ calls[1].dataObject # calls[2].dataObject

----------------------------------------------------------------------------
(* C22 *)

\* The records the walk decodes that have the prefix and the channel of the
\* record at offset o: the same kind, or the other kind of the digital or of the
\* analog pair.
SamePrefixAndChannel(b, o) ==
    {q \in WalkedOffsets(b) :
        PrefixOf(b[q + 1]) = PrefixOf(b[o + 1]) /\ b[q + 2] = b[o + 2]}

\* C22: every record the walk decodes leaves its value under
\* "<prefix>_<channel>", digital for DIG_IN and DIG_OUT, analog for ANL_IN and
\* ANL_OUT, unless a later record of the same prefix and channel replaces it: of
\* a DIG_IN and a DIG_OUT record (an ANL_IN and an ANL_OUT record) on one
\* channel only the later value is kept, a record with another prefix or
\* channel never replaces it, and the key "errors" is present exactly when an
\* unknown type id was met, holding the error list and no sensor value.
C22_KeysByPrefix ==
    DoneV1 =>
        LET b == input.bytes.items
        IN  /\ \A o \in WalkedOffsets(b) :
                   /\ RecordKey(b, o) \in DOMAIN result.data
                   /\ RecordKey(b, o) # "errors"
                   /\ result.data[RecordKey(b, o)] =
                          WalkedValue(b, LastOf(SamePrefixAndChannel(b, o)))
            /\ "errors" \in DOMAIN result.data <=> UnknownTypeMet(b)
            /\ UnknownTypeMet(b) =>
                   result.data["errors"] = ArrayOf(<<UnknownTypeMessage(b)>>)

\* DIG_IN 0 then DIG_OUT 255 on channel 1, and an ANL_IN on channel 5: digital_1
\* holds the output's 255, analog_5 is a key of its own.
C22_Witness ==
    /\ DoneV1
    /\ input.bytes.items = <<0, 1, 0, 1, 1, 255, 2, 5, 244, 255>>
    /\ DOMAIN result.data = {"digital_1", "analog_5"}
    /\ result.data["digital_1"] = Number(255)
    /\ result.data["analog_5"] = Divide(0 - 12, 100)

----------------------------------------------------------------------------
(* C23 *)

\* The sum of 2 + byte_width over the first n records of b, a concatenation of
\* complete records.
RECURSIVE BoundaryAfter(_, _)
BoundaryAfter(b, n) ==
    IF n = 0 THEN 0 ELSE RecordEnd(b, BoundaryAfter(b, n - 1))

\* The number of records of b that start before offset o.
RecordsBefore(b, o) == Cardinality({q \in RecordOffsets(b, 0) : q < o})

\* C23: every iteration of the walk that meets a catalog type id moves the
\* offset by 2 + byte_width of that kind (3, 4, 8 or 14); on a buffer that is a
\* concatenation of complete records of catalog kinds every iteration starts at
\* the sum of 2 + byte_width over the records before it and ends inside the
\* buffer, the loop is left with the offset equal to the length of the buffer,
\* and data has no key "errors".
C23_ExactBoundaries ==
    [][/\ (IterationRuns /\ IsCatalogType(input.bytes.items[i + 1])) =>
              /\ i' = i + 2 + KindOf(input.bytes.items[i + 1]).bytes
              /\ i' - i \in {3, 4, 8, 14}
       /\ (IterationRuns /\ OnlyCompleteRecords(input.bytes.items)) =>
              LET b == input.bytes.items
              IN  /\ i \in RecordOffsets(b, 0)
                  /\ i = BoundaryAfter(b, RecordsBefore(b, i))
                  /\ i' = BoundaryAfter(b, RecordsBefore(b, i) + 1)
                  /\ i' <= Len(b)
                  /\ "errors" \notin DOMAIN decoded'
       /\ (LoopOver /\ OnlyCompleteRecords(input.bytes.items)) =>
              /\ i = Len(input.bytes.items)
              /\ "errors" \notin DOMAIN decoded]_vars

\* A digital, an analog and a GPS record: after three iterations the offset
\* is 3 + 4 + 14 = 21, the length of the buffer.
C23_Witness ==
    /\ pc = "walk"
    /\ input.bytes.items =
           <<0, 1, 0, 2, 5, 244, 255,
             136, 3, 2, 220, 7, 0, 2, 251, 255, 255, 184, 11, 0, 0>>
    /\ i = 21
    /\ i = Len(input.bytes.items)
    /\ DOMAIN decoded = {"digital_1", "analog_5", "gps_3"}

====
